---------------------------- MODULE Spec2Model ----------------------------
(***************************************************************************)
(* Model of the SQL Query Assistant (src/app.py, src/db_connector.py,      *)
(* src/sql_assistant.py): the stage-based conversation controller, the     *)
(* keyword denylist, the prompt builder and the two JSON stores.           *)
(*                                                                         *)
(* A text is a sequence of one-character strings, so that upper(),         *)
(* lower(), strip(), startswith() and the substring test of the source     *)
(* are computed character by character.                                    *)
(***************************************************************************)
EXTENDS Integers, Sequences, FiniteSets, TLC

(***************************************************************************)
(* Bounds of the model.                                                    *)
(***************************************************************************)
MaxTurns == 4        \* longest transcript
MaxSessions == 2     \* session ids drawn in one behaviour
MaxRecords == 2      \* feedback records appended in one behaviour
MaxText == 9         \* longest text built by the denylist probe

(***************************************************************************)
(* str.upper / str.lower / str.strip / str.startswith / "in"               *)
(***************************************************************************)
LowerLetters ==
  <<"a","b","c","d","e","f","g","h","i","j","k","l","m",
    "n","o","p","q","r","s","t","u","v","w","x","y","z">>

UpperLetters ==
  <<"A","B","C","D","E","F","G","H","I","J","K","L","M",
    "N","O","P","Q","R","S","T","U","V","W","X","Y","Z">>

Whitespace == {" ", "\n", "\t"}

UpperChar(c) ==
  IF \E i \in 1..26 : LowerLetters[i] = c
    THEN UpperLetters[CHOOSE i \in 1..26 : LowerLetters[i] = c]
    ELSE c

LowerChar(c) ==
  IF \E i \in 1..26 : UpperLetters[i] = c
    THEN LowerLetters[CHOOSE i \in 1..26 : UpperLetters[i] = c]
    ELSE c

Upper(s) == [i \in 1..Len(s) |-> UpperChar(s[i])]

Lower(s) == [i \in 1..Len(s) |-> LowerChar(s[i])]

RECURSIVE LStrip(_)
LStrip(s) ==
  IF s # <<>> /\ Head(s) \in Whitespace THEN LStrip(Tail(s)) ELSE s

RECURSIVE RStrip(_)
RStrip(s) ==
  IF s # <<>> /\ s[Len(s)] \in Whitespace
    THEN RStrip(SubSeq(s, 1, Len(s) - 1))
    ELSE s

MutStripNone(s) == s

Strip(s) == RStrip(LStrip(s))

StartsWith(s, p) == Len(p) <= Len(s) /\ SubSeq(s, 1, Len(p)) = p

Contains(s, k) ==
  \E i \in 1..(Len(s) - Len(k) + 1) : SubSeq(s, i, i + Len(k) - 1) = k

(***************************************************************************)
(* src/db_connector.py: the denylist                                       *)
(***************************************************************************)
FORBIDDEN_KEYWORDS ==
  { <<"D","E","L","E","T","E">>,
    <<"U","P","D","A","T","E">>,
    <<"A","L","T","E","R">>,
    <<"D","R","O","P">>,
    <<"I","N","S","E","R","T">>,
    <<"T","R","U","N","C","A","T","E">>,
    <<"C","R","E","A","T","E">> }

MutSafeNoUpper(query) ==
  ~ \E keyword \in FORBIDDEN_KEYWORDS : Contains(query, keyword)

is_query_safe(query) ==
  LET upper_query == Upper(query)
  IN  ~ \E keyword \in FORBIDDEN_KEYWORDS : Contains(upper_query, keyword)


(***************************************************************************)
(* Optional values: None is the empty tuple, Some(x) the one-element one.  *)
(***************************************************************************)
None == <<>>

Some(x) == <<x>>

(***************************************************************************)
(* src/app.py: shape check of generated text (lines 217, 275, 293)         *)
(***************************************************************************)
ALLOWED_PREFIXES ==
  { <<"s","e","l","e","c","t">>,
    <<"w","i","t","h">>,
    <<"s","h","o","w">>,
    <<"d","e","s","c","r","i","b","e">> }

MutShapeAny(sql) == TRUE

ShapeValid(sql) ==
  \E p \in ALLOWED_PREFIXES : StartsWith(Lower(Strip(sql)), p)

(***************************************************************************)
(* src/app.py: user_wants_plot, the regex \b(plot|chart|...)\b on the      *)
(* lower-cased question                                                    *)
(***************************************************************************)
PLOT_WORDS ==
  { <<"p","l","o","t">>,
    <<"c","h","a","r","t">>,
    <<"g","r","a","p","h">>,
    <<"v","i","s","u","a","l","i","z","e">>,
    <<"d","r","a","w">>,
    <<"v","i","s","u","a","l","i","s","a","t","i","o","n">> }

Digits == {"0","1","2","3","4","5","6","7","8","9"}

WordChar(c) ==
  \/ \E i \in 1..26 : LowerLetters[i] = c \/ UpperLetters[i] = c
  \/ c \in Digits
  \/ c = "_"

user_wants_plot(question) ==
  LET q == Lower(question)
  IN  \E w \in PLOT_WORDS :
        \E i \in 1..(Len(q) - Len(w) + 1) :
          /\ SubSeq(q, i, i + Len(w) - 1) = w
          /\ (i = 1 \/ ~WordChar(q[i - 1]))
          /\ (i + Len(w) - 1 = Len(q) \/ ~WordChar(q[i + Len(w)]))

(***************************************************************************)
(* Turns of the transcript (the dicts appended to session_state.messages). *)
(* A missing "result" / "show_plot" key is None.                           *)
(***************************************************************************)
MutUserTurnAsAssistant(content) ==
  [role |-> "assistant", content |-> content, result |-> None,
   show_plot |-> None]

UserTurn(content) ==
  [role |-> "user", content |-> content, result |-> None, show_plot |-> None]

AssistantTurn(content) ==
  [role |-> "assistant", content |-> content, result |-> None,
   show_plot |-> None]

ResultTurn(content, rows, wants_plot) ==
  [role |-> "assistant", content |-> content, result |-> Some(rows),
   show_plot |-> Some(wants_plot)]

MANUAL_EXECUTION ==
  <<"M","a","n","u","a","l"," ","S","Q","L"," ",
    "E","x","e","c","u","t","i","o","n">>

FEEDBACK_PREFIX == <<"F","e","e","d","b","a","c","k",":"," ">>

UNTITLED_CHAT == <<"U","n","t","i","t","l","e","d"," ","C","h","a","t">>

(***************************************************************************)
(* json.dump(..., default=serialize_datetime): a result cell is            *)
(* [col, kind, val]; kind "str" and "int" are JSON-native, "datetime" goes *)
(* through serialize_datetime (isoformat, a str afterwards), any other     *)
(* kind makes serialize_datetime raise TypeError.                          *)
(***************************************************************************)
JsonNative == {"str", "int"}

serialize_datetime(cell) ==
  IF cell.kind = "datetime" THEN [cell EXCEPT !.kind = "str"] ELSE cell

CellDumps(cell) == cell.kind \in JsonNative \/ cell.kind = "datetime"

RowsDump(rows) ==
  \A r \in 1..Len(rows) : \A c \in 1..Len(rows[r]) : CellDumps(rows[r][c])

DumpRows(rows) ==
  [r \in 1..Len(rows) |->
     [c \in 1..Len(rows[r]) |->
        IF rows[r][c].kind \in JsonNative
          THEN rows[r][c]
          ELSE serialize_datetime(rows[r][c])]]

TurnDumps(m) == m.result = None \/ RowsDump(m.result[1])

DumpTurn(m) ==
  IF m.result = None THEN m
  ELSE [m EXCEPT !.result = Some(DumpRows(m.result[1]))]

MessagesDump(messages) == \A i \in 1..Len(messages) : TurnDumps(messages[i])

(***************************************************************************)
(* src/app.py: chat history files, one per session id                      *)
(***************************************************************************)
NoFile == [state |-> "absent", title |-> <<>>, messages |-> <<>>]

PartialFile == [state |-> "corrupt", title |-> <<>>, messages |-> <<>>]

Title(messages) ==
  IF \E i \in 1..Len(messages) : messages[i].role = "user"
    THEN messages[CHOOSE i \in 1..Len(messages) :
                    /\ messages[i].role = "user"
                    /\ \A j \in 1..(i - 1) : messages[j].role # "user"].content
    ELSE UNTITLED_CHAT

save_chat_to_file(fs, messages, sid) ==
  IF MessagesDump(messages)
    THEN [fs EXCEPT ![sid] =
            [state |-> "ok", title |-> Title(messages),
             messages |-> [i \in 1..Len(messages) |-> DumpTurn(messages[i])]]]
    ELSE [fs EXCEPT ![sid] = PartialFile]

load_chat(fs, sid) ==
  IF fs[sid].state = "absent" THEN <<>> ELSE fs[sid].messages

delete_chat(fs, sid) == [fs EXCEPT ![sid] = NoFile]

list_chats(fs) == {sid \in DOMAIN fs : fs[sid].state = "ok"}

(***************************************************************************)
(* src/app.py: feedback.json                                               *)
(***************************************************************************)
FeedbackEntry(id, user_question, incorrect_sql, feedback_text, correct_sql) ==
  [id |-> id, user_question |-> user_question, incorrect_sql |-> incorrect_sql,
   feedback |-> feedback_text, correct_sql |-> correct_sql]

MutAppendReplace(data, entry) == <<entry>>

append_feedback_to_json(data, entry) == Append(data, entry)

(***************************************************************************)
(* feedback.json as bytes.  The file is opened "r+" and rewritten from     *)
(* position 0 without truncating (lines 44-48), so what a write leaves     *)
(* depends on the length of the text json.dump(data, f, indent=4)          *)
(* produces: "[]" for the empty list, else per record 6 characters of      *)
(* list layout and 169 characters of keys, layout and the 36-character id, *)
(* plus the four texts with their escapes.  A file is None (absent),       *)
(* <<data>> (a whole JSON list) or <<data, length>>: the list data         *)
(* followed by what is left of an earlier, longer text of that length.     *)
(***************************************************************************)
RECURSIVE EscapedLength(_)
EscapedLength(text) ==
  IF text = <<>> THEN 0
  ELSE (IF Head(text) \in {"\n", "\t", "\"", "\\"} THEN 2 ELSE 1)
       + EscapedLength(Tail(text))

RecordLength(entry) ==
  169 + EscapedLength(entry.user_question)
      + EscapedLength(entry.incorrect_sql)
      + EscapedLength(entry.feedback)
      + EscapedLength(entry.correct_sql)

RECURSIVE JsonLength(_)
JsonLength(data) ==
  IF data = <<>> THEN 2
  ELSE 6 + RecordLength(data[Len(data)])
       + (IF Len(data) = 1 THEN 2
          ELSE JsonLength(SubSeq(data, 1, Len(data) - 1)))

FileCorrupt(file) == Len(file) = 2

FileLength(file) ==
  IF file = None THEN 0
  ELSE IF FileCorrupt(file) THEN file[2]
  ELSE JsonLength(file[1])

Overwrite(file, data) ==
  IF JsonLength(data) >= FileLength(file)
    THEN Some(data)
    ELSE <<data, FileLength(file)>>

(***************************************************************************)
(* src/sql_assistant.py: build_prompt                                      *)
(***************************************************************************)
HISTORY_WINDOW == 5

USER_PREFIX == <<"U","s","e","r",":"," ">>

ASSISTANT_PREFIX ==
  <<"A","s","s","i","s","t","a","n","t"," ","S","Q","L",":"," ">>

INSTRUCTION ==
  <<"G","e","n","e","r","a","t","e"," ","a","n"," ",
    "a","p","p","r","o","p","r","i","a","t","e"," ","S","Q","L"," ",
    "q","u","e","r","y"," ","t","o"," ","a","n","s","w","e","r"," ",
    "t","h","e"," ","u","s","e","r",".">>

MutFirstMessages(previous_messages) ==
  SubSeq(previous_messages, 1,
         IF Len(previous_messages) > HISTORY_WINDOW
           THEN HISTORY_WINDOW ELSE Len(previous_messages))

LastMessages(previous_messages) ==
  SubSeq(previous_messages,
         IF Len(previous_messages) > HISTORY_WINDOW
           THEN Len(previous_messages) - HISTORY_WINDOW + 1 ELSE 1,
         Len(previous_messages))

RECURSIVE RenderHistory(_)
RenderHistory(msgs) ==
  IF msgs = <<>> THEN <<>>
  ELSE (IF Head(msgs).role = "user"
          THEN USER_PREFIX \o Head(msgs).content \o <<"\n">>
          ELSE ASSISTANT_PREFIX \o Head(msgs).content \o <<"\n">>)
       \o RenderHistory(Tail(msgs))

build_prompt(user_question, feedback, previous_messages) ==
  RenderHistory(LastMessages(previous_messages))
    \o <<"\n">> \o USER_PREFIX \o user_question \o <<"\n">>
    \o (IF feedback # <<>> THEN FEEDBACK_PREFIX \o feedback \o <<"\n">>
        ELSE <<>>)
    \o INSTRUCTION

(***************************************************************************)
(* The inputs of the model: what the user types, what vn.generate_sql      *)
(* returns (None: it raises) and what vn.run_sql returns (None: it raises) *)
(***************************************************************************)
QSpend == <<"p","l","o","t"," ","s","p","e","n","d">>

QDelete == <<"d","e","l","e","t","e"," ","a","l","l">>

SqlSelect == <<"S","e","l","e","c","t"," ","1">>

SqlShowUpd == <<"\n","S","H","O","W"," ","u","p","d","a","t","e","d">>

SqlSorry == <<"s","o","r","r","y">>

ManualDrop == <<"d","r","o","p"," ","t">>

FbBlank == <<" ">>

FbFix == <<" ","f","i","x"," ">>

RowDated ==
  << [col |-> "day", kind |-> "datetime", val |-> "2024-01-01T00:00:00"] >>

RowDecimal == << [col |-> "spend", kind |-> "decimal", val |-> "9.50"] >>

Questions == {QSpend, QDelete}

GenOutcomes == {None, Some(SqlSelect), Some(SqlShowUpd), Some(SqlSorry)}

ExecOutcomes == {None, Some(<<RowDated>>), Some(<<RowDecimal>>)}

ManualTexts == {SqlSelect, ManualDrop}

FeedbackTexts == {FbBlank, FbFix}

SessionIds == 1..(MaxSessions + MaxRecords)

(***************************************************************************)
(* Concurrent script runs (one thread per browser session) that are each   *)
(* inside append_feedback_to_json: pc is the statement the run is at,      *)
(* entries the feedback_entry values it has built so far (the last one is  *)
(* the current one), data the list it has loaded.                          *)
(***************************************************************************)
MaxWriters == 2      \* script runs appending at the same time

MaxAppends == 3      \* appends started in one behaviour

Writers == 1..MaxWriters

IdleWriter == [pc |-> "idle", entries |-> <<>>, data |-> <<>>]

FbFixIt == <<"f","i","x"," ","i","t">>

WriterFeedback == {Strip(FbFix), FbFixIt}

(***************************************************************************)
(* State.  st.session_state: stage, user_question, sql, query_result,      *)
(* user_feedback, messages, session_id.  Disk: files (chat_histories/),    *)
(* feedback_file (feedback.json, None while it does not exist).  uuids     *)
(* counts the uuid4() values drawn.  last_run observes the latest script   *)
(* run: the widget that triggered it, its input, the message it showed     *)
(* and the external calls it made, in order.  query and verdict are the    *)
(* argument and the result of is_query_safe in the denylist probe.         *)
(***************************************************************************)
VARIABLES stage, user_question, sql, query_result, user_feedback, messages,
          session_id, files, feedback_file, uuids, last_run, query, verdict,
          writers

session == <<stage, user_question, sql, query_result, user_feedback,
             messages, session_id>>

disk == <<files, feedback_file>>

probe == <<query, verdict>>

vars == <<stage, user_question, sql, query_result, user_feedback, messages,
          session_id, files, feedback_file, uuids, last_run, query, verdict,
          writers>>

Call(op, arg, out) == [op |-> op, arg |-> arg, out |-> out]

Done(ok) == IF ok THEN Some(<<>>) ELSE None

Run(event, input, notice, calls) ==
  [event |-> event, input |-> input, notice |-> notice, calls |-> calls]

Init ==
  /\ stage = "ask_question"
  /\ user_question = <<>>
  /\ sql = <<>>
  /\ query_result = None
  /\ user_feedback = <<>>
  /\ messages = <<>>
  /\ session_id = 1
  /\ files = [sid \in SessionIds |-> NoFile]
  /\ feedback_file = None
  /\ uuids = 1
  /\ last_run = Run("start", <<>>, "", <<>>)
  /\ query = <<>>
  /\ verdict = is_query_safe(<<>>)
  /\ writers = [w \in Writers |-> IdleWriter]

RecordCount == IF feedback_file = None THEN 0 ELSE Len(feedback_file[1])

SessionsDrawn == uuids - RecordCount

(***************************************************************************)
(* reset_to_ask_question                                                   *)
(***************************************************************************)
MutResetKeepsSql ==
  /\ stage' = "ask_question"
  /\ user_question' = <<>>
  /\ sql' = sql
  /\ query_result' = None
  /\ user_feedback' = <<>>

reset_to_ask_question ==
  /\ stage' = "ask_question"
  /\ user_question' = <<>>
  /\ sql' = <<>>
  /\ query_result' = None
  /\ user_feedback' = <<>>

(***************************************************************************)
(* stage "ask_question": the chat input                                    *)
(***************************************************************************)
AskQuestion(user_input, gen) ==
  /\ stage = "ask_question"
  /\ user_input # <<>>
  /\ IF ~is_query_safe(user_input)
       THEN /\ last_run' = Run("ask_question", user_input, "unsafe", <<>>)
            /\ UNCHANGED <<session, disk, uuids, probe, writers>>
       ELSE LET msgs == Append(messages, UserTurn(user_input))
                saved == MessagesDump(msgs)
                save == Call("save_chat_to_file", <<>>, Done(saved))
                prompt == build_prompt(user_input, None, msgs)
            IN  /\ user_question' = user_input
                /\ messages' = msgs
                /\ files' = save_chat_to_file(files, msgs, session_id)
                /\ IF ~saved
                     THEN /\ last_run' = Run("ask_question", user_input,
                                             "exception", <<save>>)
                          /\ UNCHANGED <<stage, sql>>
                     ELSE IF gen = None
                     THEN /\ last_run' =
                               Run("ask_question", user_input, "error",
                                   <<save, Call("generate_sql", prompt, None)>>)
                          /\ UNCHANGED <<stage, sql>>
                     ELSE IF ~ShapeValid(gen[1])
                     THEN /\ last_run' =
                               Run("ask_question", user_input, "invalid_sql",
                                   <<save, Call("generate_sql", prompt, gen)>>)
                          /\ UNCHANGED <<stage, sql>>
                     ELSE /\ last_run' =
                               Run("ask_question", user_input, "",
                                   <<save, Call("generate_sql", prompt, gen)>>)
                          /\ sql' = gen[1]
                          /\ stage' = "show_query"
                /\ UNCHANGED <<query_result, user_feedback, session_id,
                               feedback_file, uuids, probe, writers>>

(***************************************************************************)
(* stage "show_query": runs at once on the rerun, without any input        *)
(***************************************************************************)
MutKeepDuplicate(msgs, new_sql) == msgs

\* lines 232-234: the last turn is popped when it is an assistant turn whose
\* content is the SQL about to be recorded
PopDuplicate(msgs, new_sql) ==
  IF /\ msgs # <<>>
     /\ msgs[Len(msgs)].role = "assistant"
     /\ msgs[Len(msgs)].content = new_sql
    THEN SubSeq(msgs, 1, Len(msgs) - 1)
    ELSE msgs

ShowQuery(res) ==
  /\ stage = "show_query"
  /\ IF res = None
       THEN /\ last_run' = Run("show_query", <<>>, "exec_error",
                               <<Call("run_sql", sql, None)>>)
            /\ reset_to_ask_question
            /\ UNCHANGED <<messages, session_id, disk, uuids, probe, writers>>
       ELSE LET wants_plot == user_wants_plot(user_question)
                kept == PopDuplicate(messages, sql)
                msgs == Append(kept, ResultTurn(sql, res[1], wants_plot))
                saved == MessagesDump(msgs)
                calls == <<Call("run_sql", sql, res),
                           Call("save_chat_to_file", <<>>, Done(saved))>>
            IN  /\ messages' = msgs
                /\ files' = save_chat_to_file(files, msgs, session_id)
                /\ IF saved
                     THEN /\ last_run' = Run("show_query", <<>>, "", calls)
                          /\ query_result' = res
                          /\ stage' = "ask_feedback"
                          /\ UNCHANGED <<user_question, sql, user_feedback>>
                     ELSE /\ last_run' =
                               Run("show_query", <<>>, "exec_error", calls)
                          /\ reset_to_ask_question
                /\ UNCHANGED <<session_id, feedback_file, uuids, probe,
                               writers>>

(***************************************************************************)
(* stage "ask_feedback": the Yes / No buttons and the chat input           *)
(***************************************************************************)
FeedbackYes ==
  /\ stage = "ask_feedback"
  /\ reset_to_ask_question
  /\ last_run' = Run("yes", <<>>, "", <<>>)
  /\ UNCHANGED <<messages, session_id, disk, uuids, probe, writers>>

FeedbackNo ==
  /\ stage = "ask_feedback"
  /\ stage' = "get_feedback"
  /\ last_run' = Run("no", <<>>, "", <<>>)
  /\ UNCHANGED <<user_question, sql, query_result, user_feedback, messages,
                 session_id, disk, uuids, probe, writers>>

NextQuestion(next_question, gen) ==
  /\ stage = "ask_feedback"
  /\ next_question # <<>>
  /\ LET msgs == Append(messages, UserTurn(next_question))
         saved == MessagesDump(msgs)
         save == Call("save_chat_to_file", <<>>, Done(saved))
         prompt == build_prompt(next_question, None, msgs)
     IN  /\ user_question' = next_question
         /\ query_result' = None
         /\ user_feedback' = <<>>
         /\ messages' = msgs
         /\ files' = save_chat_to_file(files, msgs, session_id)
         /\ IF ~saved
              THEN /\ last_run' = Run("next_question", next_question,
                                      "exception", <<save>>)
                   /\ stage' = "ask_question"
                   /\ sql' = <<>>
              ELSE IF gen = None
              THEN /\ last_run' =
                        Run("next_question", next_question, "error",
                            <<save, Call("generate_sql", prompt, None)>>)
                   /\ stage' = "ask_question"
                   /\ sql' = <<>>
              ELSE IF ~ShapeValid(gen[1])
              THEN /\ last_run' =
                        Run("next_question", next_question, "invalid_sql",
                            <<save, Call("generate_sql", prompt, gen)>>)
                   /\ stage' = "ask_question"
                   /\ sql' = <<>>
              ELSE /\ last_run' =
                        Run("next_question", next_question, "",
                            <<save, Call("generate_sql", prompt, gen)>>)
                   /\ sql' = gen[1]
                   /\ stage' = "show_query"
         /\ UNCHANGED <<session_id, feedback_file, uuids, probe, writers>>

(***************************************************************************)
(* stage "get_feedback": the text area (key "user_feedback") and the       *)
(* Submit Feedback button                                                  *)
(***************************************************************************)
TypeFeedback(feedback_input) ==
  /\ stage = "get_feedback"
  /\ user_feedback' = feedback_input
  /\ last_run' = Run("type_feedback", feedback_input, "", <<>>)
  /\ UNCHANGED <<stage, user_question, sql, query_result, messages,
                 session_id, disk, uuids, probe, writers>>

SubmitFeedback(gen) ==
  /\ stage = "get_feedback"
  /\ LET feedback_text == Strip(user_feedback)
         prompt == build_prompt(user_question, feedback_text, <<>>)
     IN  IF feedback_text = <<>>
           THEN /\ last_run' = Run("submit_feedback", user_feedback,
                                   "warning", <<>>)
                /\ UNCHANGED <<session, disk, uuids, probe, writers>>
         ELSE IF gen = None
           THEN /\ last_run' =
                     Run("submit_feedback", user_feedback, "regen_error",
                         <<Call("generate_sql", prompt, None)>>)
                /\ UNCHANGED <<session, disk, uuids, probe, writers>>
         ELSE IF ~ShapeValid(gen[1])
           THEN /\ last_run' =
                     Run("submit_feedback", user_feedback, "invalid_sql",
                         <<Call("generate_sql", prompt, gen)>>)
                /\ UNCHANGED <<session, disk, uuids, probe, writers>>
         ELSE LET new_sql == gen[1]
                  entry == FeedbackEntry(uuids + 1, user_question, sql,
                                         feedback_text, new_sql)
                  data == IF feedback_file = None THEN <<>>
                          ELSE feedback_file[1]
                  msgs == messages \o
                            << UserTurn(FEEDBACK_PREFIX \o feedback_text),
                               AssistantTurn(new_sql) >>
                  saved == MessagesDump(msgs)
                  calls == <<Call("generate_sql", prompt, gen),
                             Call("append_feedback_to_json", <<>>, Done(TRUE)),
                             Call("save_chat_to_file", <<>>, Done(saved))>>
              IN  /\ uuids' = uuids + 1
                  /\ feedback_file' = Some(append_feedback_to_json(data, entry))
                  /\ sql' = new_sql
                  /\ messages' = msgs
                  /\ files' = save_chat_to_file(files, msgs, session_id)
                  /\ IF saved
                       THEN /\ last_run' = Run("submit_feedback",
                                               user_feedback, "", calls)
                            /\ stage' = "show_query"
                       ELSE /\ last_run' = Run("submit_feedback",
                                               user_feedback, "regen_error",
                                               calls)
                            /\ UNCHANGED stage
                  /\ UNCHANGED <<user_question, query_result, user_feedback,
                                 session_id, probe, writers>>

(***************************************************************************)
(* Sidebar: Run Manual SQL, New Chat, Load, Delete.  The sidebar is drawn  *)
(* in every run, but a run in stage "show_query" is a rerun and no button  *)
(* is pressed in it.  list_chats shows the 5 newest files; MaxSessions      *)
(* keeps the number of files below that.                                   *)
(***************************************************************************)
RunManualSQL(manual_sql, res) ==
  /\ stage # "show_query"
  /\ IF ~is_query_safe(manual_sql)
       THEN /\ last_run' = Run("manual_sql", manual_sql, "manual_unsafe", <<>>)
            /\ UNCHANGED <<session, disk, uuids, probe, writers>>
     ELSE IF res = None
       THEN /\ last_run' = Run("manual_sql", manual_sql, "manual_error",
                               <<Call("run_sql", manual_sql, None)>>)
            /\ UNCHANGED <<session, disk, uuids, probe, writers>>
     ELSE LET msgs == messages \o
                        << UserTurn(manual_sql),
                           ResultTurn(MANUAL_EXECUTION, res[1],
                                      user_wants_plot(manual_sql)) >>
              saved == MessagesDump(msgs)
              calls == <<Call("run_sql", manual_sql, res),
                         Call("save_chat_to_file", <<>>, Done(saved))>>
          IN  /\ messages' = msgs
              /\ files' = save_chat_to_file(files, msgs, session_id)
              /\ last_run' = Run("manual_sql", manual_sql,
                                 IF saved THEN "" ELSE "manual_error", calls)
              /\ UNCHANGED <<stage, user_question, sql, query_result,
                             user_feedback, session_id, feedback_file, uuids,
                             probe, writers>>

NewChat ==
  /\ stage # "show_query"
  /\ uuids' = uuids + 1
  /\ session_id' = uuids + 1
  /\ messages' = <<>>
  /\ reset_to_ask_question
  /\ last_run' = Run("new_chat", <<>>, "", <<>>)
  /\ UNCHANGED <<disk, probe, writers>>

LoadChat(sid) ==
  /\ stage # "show_query"
  /\ sid \in list_chats(files)
  /\ session_id' = sid
  /\ messages' = load_chat(files, sid)
  /\ last_run' = Run("load", <<>>, "", <<>>)
  /\ UNCHANGED <<stage, user_question, sql, query_result, user_feedback,
                 disk, uuids, probe, writers>>

DeleteChat(sid) ==
  /\ stage # "show_query"
  /\ sid \in list_chats(files)
  /\ files' = delete_chat(files, sid)
  /\ last_run' = Run("delete", <<>>, "", <<>>)
  /\ UNCHANGED <<session, feedback_file, uuids, probe, writers>>

(***************************************************************************)
(* src/sql_assistant.py: train_vanna, and get_vanna of src/app.py, which   *)
(* runs once per process (st.cache_resource).  The result is the list of   *)
(* vn.train calls, in order.                                               *)
(***************************************************************************)
DB_DOCUMENTATION ==
  <<"T","h","i","s"," ","d","a","t","a","b","a","s","e"," ","i","n",
    "c","l","u","d","e","s"," ","t","a","b","l","e","s"," ","f","o",
    "r"," ","o","p","e","r","a","t","i","o","n","a","l"," ","r","e",
    "p","o","r","t","i","n","g",","," ","\n"," "," "," "," ","s","p",
    "e","n","d"," ","a","n","a","l","y","t","i","c","s",","," ","v",
    "e","n","d","o","r"," ","p","e","r","f","o","r","m","a","n","c",
    "e",","," ","i","n","v","o","i","c","e"," ","i","n","s","i","g",
    "h","t","s",","," ","a","n","d"," ","t","a","x","o","n","o","m",
    "y"," ","c","l","a","s","s","i","f","i","c","a","t","i","o","n",
    ".">>

QUESTION_LABEL ==
  <<"U","s","e","r"," ","q","u","e","s","t","i","o","n",":"," ">>

CORRECT_LABEL ==
  <<"\n","C","o","r","r","e","c","t"," ","S","Q","L",":"," ">>

FEEDBACK_JSON_PATH == "feedback.json"

load_or_create_feedback_json(store) ==
  IF store = None THEN <<>> ELSE store[1]

RECURSIVE ReplayFeedback(_)
ReplayFeedback(feedback_list) ==
  IF feedback_list = <<>> THEN <<>>
  ELSE LET feedback == Head(feedback_list)
           user_q == Strip(feedback.user_question)
           correct_sql == Strip(feedback.correct_sql)
       IN  (IF user_q # <<>> /\ correct_sql # <<>>
              THEN <<Call("train_documentation",
                          QUESTION_LABEL \o user_q \o CORRECT_LABEL
                            \o correct_sql,
                          Done(TRUE))>>
              ELSE <<>>)
           \o ReplayFeedback(Tail(feedback_list))

train_vanna(feedback_json_path, store) ==
  << Call("train_ddl", <<>>, Done(TRUE)),
     Call("train_documentation", DB_DOCUMENTATION, Done(TRUE)) >>
  \o (IF feedback_json_path # None
        THEN ReplayFeedback(load_or_create_feedback_json(store))
        ELSE <<>>)

get_vanna(store) == train_vanna(None, store)

\* the process is started again: get_vanna trains a new generator and the
\* browser opens a new session (lines 128-141)
Restart ==
  /\ stage # "show_query"
  /\ uuids' = uuids + 1
  /\ session_id' = uuids + 1
  /\ messages' = <<>>
  /\ reset_to_ask_question
  /\ last_run' = Run("get_vanna", <<>>, "", get_vanna(feedback_file))
  /\ UNCHANGED <<disk, probe, writers>>

(***************************************************************************)
(* The bounds are guards of the next-state relations, not of the actions:  *)
(* an interaction that may append turns starts only while the transcript   *)
(* has room for them, a feedback record is appended only while the store   *)
(* has room, a new session id is drawn only while ids are left.            *)
(***************************************************************************)
Room(cap) == Len(messages) + 2 <= cap

Next ==
  \/ \E q \in Questions, gen \in GenOutcomes :
       Room(MaxTurns) /\ AskQuestion(q, gen)
  \/ \E res \in ExecOutcomes : ShowQuery(res)
  \/ FeedbackYes
  \/ FeedbackNo
  \/ \E q \in Questions, gen \in GenOutcomes :
       Room(MaxTurns) /\ NextQuestion(q, gen)
  \/ \E t \in FeedbackTexts : TypeFeedback(t)
  \/ \E gen \in GenOutcomes :
       Room(MaxTurns) /\ RecordCount < MaxRecords /\ SubmitFeedback(gen)
  \/ \E m \in ManualTexts, res \in ExecOutcomes :
       Room(MaxTurns) /\ RunManualSQL(m, res)
  \/ SessionsDrawn < MaxSessions /\ NewChat
  \/ \E sid \in SessionIds : LoadChat(sid)
  \/ \E sid \in SessionIds : DeleteChat(sid)
  \/ SessionsDrawn < MaxSessions /\ Restart

Spec == Init /\ [][Next]_vars

(***************************************************************************)
(* The denylist probe: is_query_safe applied to texts assembled from       *)
(* filler characters, denylisted keywords in three casings and keywords    *)
(* short of their last letter.                                             *)
(***************************************************************************)
Fillers == {"_", "e", " "}

Casings == {"upper", "lower", "mixed"}

Cased(k, casing) ==
  IF casing = "upper" THEN k
  ELSE IF casing = "lower" THEN Lower(k)
  ELSE [i \in 1..Len(k) |-> IF i % 2 = 1 THEN k[i] ELSE LowerChar(k[i])]

ProbeFiller(c) ==
  /\ Len(query) < MaxText
  /\ query' = Append(query, c)
  /\ verdict' = is_query_safe(query')
  /\ UNCHANGED <<session, disk, uuids, last_run, writers>>

ProbeKeyword(k, casing) ==
  /\ Len(query) + Len(k) <= MaxText
  /\ query' = query \o Cased(k, casing)
  /\ verdict' = is_query_safe(query')
  /\ UNCHANGED <<session, disk, uuids, last_run, writers>>

ProbeNearMiss(k) ==
  /\ Len(query) + Len(k) - 1 <= MaxText
  /\ query' = query \o Lower(SubSeq(k, 1, Len(k) - 1))
  /\ verdict' = is_query_safe(query')
  /\ UNCHANGED <<session, disk, uuids, last_run, writers>>

NextSafe ==
  \/ \E c \in Fillers : ProbeFiller(c)
  \/ \E k \in FORBIDDEN_KEYWORDS, casing \in Casings : ProbeKeyword(k, casing)
  \/ \E k \in FORBIDDEN_KEYWORDS : ProbeNearMiss(k)

SpecSafe == Init /\ [][NextSafe]_vars

(***************************************************************************)
(* Long transcripts: the controller's actions and the manual run in a      *)
(* single session, with one manual statement and one feedback text, and    *)
(* room for three rounds of two turns.                                     *)
(***************************************************************************)
MaxLongTurns == 6

NextLong ==
  \/ \E q \in Questions, gen \in GenOutcomes :
       Room(MaxLongTurns) /\ AskQuestion(q, gen)
  \/ \E res \in ExecOutcomes : ShowQuery(res)
  \/ FeedbackYes
  \/ FeedbackNo
  \/ \E q \in Questions, gen \in GenOutcomes :
       Room(MaxLongTurns) /\ NextQuestion(q, gen)
  \/ TypeFeedback(FbFix)
  \/ \E gen \in GenOutcomes :
       Room(MaxLongTurns) /\ RecordCount < MaxRecords /\ SubmitFeedback(gen)
  \/ \E res \in ExecOutcomes :
       Room(MaxLongTurns) /\ RunManualSQL(SqlSelect, res)

SpecLong == Init /\ [][NextLong]_vars

(***************************************************************************)
(* The prompt composer on its own: generate_sql_with_feedback applied to   *)
(* histories of up to MaxHistory turns, built turn by turn, with and       *)
(* without feedback.                                                       *)
(***************************************************************************)
MaxHistory == 7

HistoryTurns ==
  { UserTurn(QSpend), AssistantTurn(SqlSelect),
    ResultTurn(MANUAL_EXECUTION, <<RowDated>>, FALSE) }

Feedbacks == {None, Strip(FbFix)}

AppendTurn(turn) ==
  /\ Len(messages) < MaxHistory
  /\ messages' = Append(messages, turn)
  /\ last_run' = Run("append_turn", <<>>, "", <<>>)
  /\ UNCHANGED <<stage, user_question, sql, query_result, user_feedback,
                 session_id, disk, uuids, probe, writers>>

generate_sql_with_feedback(question, feedback, previous_messages, gen) ==
  /\ last_run' =
       Run("generate_sql_with_feedback",
           [question |-> question, feedback |-> feedback], "",
           <<Call("generate_sql",
                  build_prompt(question, feedback, previous_messages), gen)>>)
  /\ UNCHANGED <<session, disk, uuids, probe, writers>>

NextPrompt ==
  \/ \E turn \in HistoryTurns : AppendTurn(turn)
  \/ \E q \in Questions, fb \in Feedbacks :
       generate_sql_with_feedback(q, fb, messages, Some(SqlSelect))

SpecPrompt == Init /\ [][NextPrompt]_vars

(***************************************************************************)
(* append_feedback_to_json, statement by statement: the entry is built     *)
(* (lines 32-38), the existence of the file tested (line 40), the file     *)
(* created with the empty list if it was absent (lines 41-42), opened and  *)
(* loaded (lines 44-45), and the list with the entry appended written from *)
(* position 0 (lines 46-48).                                               *)
(***************************************************************************)
BuildEntry(w, feedback_text) ==
  /\ writers[w].pc \in {"idle", "raised"}
  /\ writers' = [writers EXCEPT ![w] =
       [pc |-> "exists",
        entries |-> Append(@.entries,
                           FeedbackEntry(uuids + 1, QSpend, SqlSelect,
                                         feedback_text, SqlSelect)),
        data |-> <<>>]]
  /\ uuids' = uuids + 1
  /\ UNCHANGED <<session, disk, last_run, probe>>

CheckExists(w) ==
  /\ writers[w].pc = "exists"
  /\ writers' = [writers EXCEPT ![w].pc =
       IF feedback_file = None THEN "create" ELSE "open"]
  /\ UNCHANGED <<session, disk, uuids, last_run, probe>>

CreateFile(w) ==
  /\ writers[w].pc = "create"
  /\ feedback_file' = Some(<<>>)
  /\ writers' = [writers EXCEPT ![w].pc = "open"]
  /\ UNCHANGED <<session, files, uuids, last_run, probe>>

LoadFile(w) ==
  /\ writers[w].pc = "open"
  /\ writers' = [writers EXCEPT ![w] =
       IF FileCorrupt(feedback_file)
         THEN [@ EXCEPT !.pc = "raised"]
         ELSE [@ EXCEPT !.pc = "write", !.data = feedback_file[1]]]
  /\ UNCHANGED <<session, disk, uuids, last_run, probe>>

DumpFile(w) ==
  /\ writers[w].pc = "write"
  /\ LET feedback_entry == writers[w].entries[Len(writers[w].entries)]
         data == append_feedback_to_json(writers[w].data, feedback_entry)
     IN  feedback_file' = Overwrite(feedback_file, data)
  /\ writers' = [writers EXCEPT ![w].pc = "idle", ![w].data = <<>>]
  /\ UNCHANGED <<session, files, uuids, last_run, probe>>

RECURSIVE EntriesBuilt(_)
EntriesBuilt(n) ==
  IF n = 0 THEN 0 ELSE Len(writers[n].entries) + EntriesBuilt(n - 1)

NextWriters ==
  \/ \E w \in Writers, t \in WriterFeedback :
       EntriesBuilt(MaxWriters) < MaxAppends /\ BuildEntry(w, t)
  \/ \E w \in Writers : CheckExists(w)
  \/ \E w \in Writers : CreateFile(w)
  \/ \E w \in Writers : LoadFile(w)
  \/ \E w \in Writers : DumpFile(w)

SpecWriters == Init /\ [][NextWriters]_vars

(***************************************************************************)
(* Vocabulary of the properties, stated on the texts themselves.           *)
(***************************************************************************)
DenylistWords ==
  { <<"d","e","l","e","t","e">>, <<"u","p","d","a","t","e">>,
    <<"a","l","t","e","r">>, <<"d","r","o","p">>,
    <<"i","n","s","e","r","t">>, <<"t","r","u","n","c","a","t","e">>,
    <<"c","r","e","a","t","e">> }

ReadWords ==
  { <<"s","e","l","e","c","t">>, <<"w","i","t","h">>, <<"s","h","o","w">>,
    <<"d","e","s","c","r","i","b","e">> }

\* word w occurs in text at position i, letter case ignored
OccursAt(text, w, i) ==
  /\ i + Len(w) - 1 <= Len(text)
  /\ \A j \in 1..Len(w) : LowerChar(text[i + j - 1]) = w[j]

Denylisted(text) ==
  \E w \in DenylistWords : \E i \in 1..Len(text) : OccursAt(text, w, i)

\* the first non-blank position of text starts a read-only keyword
ReadShaped(text) ==
  \E w \in ReadWords : \E i \in 1..Len(text) :
    /\ \A j \in 1..(i - 1) : text[j] \in Whitespace
    /\ text[i] \notin Whitespace
    /\ OccursAt(text, w, i)

CallsOf(run, op) == {i \in 1..Len(run.calls) : run.calls[i].op = op}

\* the text vn.generate_sql returned in the run, if it was called and returned
Generated(run) ==
  IF \E i \in CallsOf(run, "generate_sql") : run.calls[i].out # None
    THEN run.calls[CHOOSE i \in CallsOf(run, "generate_sql") :
                     run.calls[i].out # None].out
    ELSE None

ShapeRejected(run) == Generated(run) # None /\ ~ReadShaped(Generated(run)[1])

ExecSucceeded(run) ==
  /\ run.event = "show_query"
  /\ \E i \in CallsOf(run, "run_sql") : run.calls[i].out # None

ExecFailed(run) ==
  /\ run.event = "show_query"
  /\ \E i \in CallsOf(run, "run_sql") : run.calls[i].out = None

Records == IF feedback_file = None THEN <<>> ELSE feedback_file[1]

(***************************************************************************)
(* C1: every SQL text stored in the transcript (the content of an          *)
(* assistant turn, the user turn of a manual run) and every incorrect_sql  *)
(* and correct_sql of a feedback record contains no denylisted keyword.    *)
(***************************************************************************)
C1_StoredSqlIsSafe ==
  /\ \A i \in 1..Len(messages) :
       messages[i].role = "assistant" => ~Denylisted(messages[i].content)
  /\ \A i \in 1..(Len(messages) - 1) :
       (messages[i].role = "user" /\ messages[i + 1].content = MANUAL_EXECUTION)
         => ~Denylisted(messages[i].content)
  /\ \A i \in 1..Len(Records) :
       /\ ~Denylisted(Records[i].incorrect_sql)
       /\ ~Denylisted(Records[i].correct_sql)

(***************************************************************************)
(* C2: no text containing a denylisted keyword is ever handed to run_sql,  *)
(* from the show_query stage or from the manual action.                    *)
(***************************************************************************)
C2_ExecutedSqlIsSafe ==
  \A i \in CallsOf(last_run, "run_sql") : ~Denylisted(last_run.calls[i].arg)

(***************************************************************************)
(* C3: a new question typed in stage ask_feedback that contains a          *)
(* denylisted keyword is rejected as in stage ask_question: no turn is     *)
(* appended, nothing is persisted, the generator is not called.            *)
(***************************************************************************)
C3_NextQuestionGated ==
  [][ (last_run'.event = "next_question" /\ Denylisted(last_run'.input))
        => /\ messages' = messages
           /\ files' = files
           /\ last_run'.calls = <<>> ]_vars

(***************************************************************************)
(* C4: is_query_safe(text) is false exactly when text, letter case         *)
(* ignored, contains one of the seven denylisted words as a substring.     *)
(***************************************************************************)
C4_IsSafeExact == verdict = ~Denylisted(query)

C4_Witness ==
  /\ query = <<"_","U","p","D","a","T","e","_">>
  /\ verdict = FALSE

(***************************************************************************)
(* C5: a question typed in stage ask_question that contains a denylisted   *)
(* keyword leaves the stage, the transcript, the session files,            *)
(* user_question and sql unchanged, and no external call is made (no       *)
(* save, no generation).                                                   *)
(***************************************************************************)
C5_UnsafeQuestionRejected ==
  [][ (last_run'.event = "ask_question" /\ Denylisted(last_run'.input))
        => /\ stage' = "ask_question"
           /\ stage = "ask_question"
           /\ messages' = messages
           /\ files' = files
           /\ user_question' = user_question
           /\ sql' = sql
           /\ last_run'.calls = <<>>
           /\ last_run'.notice = "unsafe" ]_vars

C5_Witness ==
  /\ last_run.event = "ask_question"
  /\ last_run.input = QDelete
  /\ last_run.notice = "unsafe"
  /\ stage = "ask_question"
  /\ messages # <<>>

(***************************************************************************)
(* C6: the stage becomes show_query only in a run in which the generator    *)
(* returned text that starts, once trimmed and letter case ignored, with   *)
(* select, with, show or describe, and that text becomes sql; in stages    *)
(* show_query, ask_feedback and get_feedback, sql is non-empty and of      *)
(* that shape and user_question is non-empty.                              *)
(***************************************************************************)
C6_ShapeGate ==
  /\ [](stage \in {"show_query", "ask_feedback", "get_feedback"}
          => /\ sql # <<>>
             /\ ReadShaped(sql)
             /\ user_question # <<>>)
  /\ [][ (stage' = "show_query" /\ stage # "show_query")
          => /\ Generated(last_run') # None
             /\ ReadShaped(Generated(last_run')[1])
             /\ sql' = Generated(last_run')[1] ]_vars

C6_Witness ==
  /\ stage = "get_feedback"
  /\ sql = SqlShowUpd
  /\ last_run.event = "load"
  /\ Len(Records) = 1

(***************************************************************************)
(* C7: a run in stage show_query whose run_sql succeeds ends with the      *)
(* transcript closed by one assistant turn holding sql and the returned    *)
(* rows, query_result set, the session saved and the stage ask_feedback;   *)
(* every run in stage show_query leaves it for ask_feedback or             *)
(* ask_question.                                                           *)
(***************************************************************************)
C7_ShowQueryRecords ==
  [][ /\ ExecSucceeded(last_run')
        => /\ stage' = "ask_feedback"
           /\ messages' # <<>>
           /\ messages'[Len(messages')].role = "assistant"
           /\ messages'[Len(messages')].content = sql
           /\ messages'[Len(messages')].result = query_result'
           /\ query_result' # None
           /\ files'[session_id].state = "ok"
           /\ Len(files'[session_id].messages) = Len(messages')
      /\ stage = "show_query" => stage' \in {"ask_feedback", "ask_question"}
    ]_vars

(***************************************************************************)
(* C8: a run in stage show_query whose run_sql raises ends in stage        *)
(* ask_question with user_question, sql, query_result and user_feedback    *)
(* blank; the transcript and the session files are as before the run and   *)
(* save_chat_to_file is not called.                                        *)
(***************************************************************************)
C8_ExecErrorResets ==
  [][ ExecFailed(last_run')
        => /\ stage = "show_query"
           /\ stage' = "ask_question"
           /\ user_question' = <<>>
           /\ sql' = <<>>
           /\ query_result' = None
           /\ user_feedback' = <<>>
           /\ messages' = messages
           /\ files' = files
           /\ CallsOf(last_run', "save_chat_to_file") = {} ]_vars

C8_Witness ==
  /\ ExecFailed(last_run)
  /\ last_run.notice = "exec_error"
  /\ stage = "ask_question"
  /\ messages # <<>>
  /\ messages[Len(messages)].role = "assistant"

(***************************************************************************)
(* C9 as stated: whenever the generator returns text that is not           *)
(* read-shaped, the stage, sql, query_result and the feedback store are    *)
(* the same after the run as before it.                                    *)
(***************************************************************************)
C9_ShapeRejectionKeepsAll ==
  [][ ShapeRejected(last_run')
        => /\ stage' = stage
           /\ sql' = sql
           /\ query_result' = query_result
           /\ feedback_file' = feedback_file ]_vars

(***************************************************************************)
(* C9 amended: on a shape rejection the feedback store is unchanged; after *)
(* a question in ask_question or a regeneration in get_feedback the stage, *)
(* sql and query_result are unchanged; after a new question in             *)
(* ask_feedback the state has been reset: the stage is ask_question and    *)
(* sql and query_result are blank.                                         *)
(***************************************************************************)
C9_ShapeRejection ==
  [][ ShapeRejected(last_run')
        => /\ feedback_file' = feedback_file
           /\ last_run'.event \in
                {"ask_question", "next_question", "submit_feedback"}
           /\ last_run'.event \in {"ask_question", "submit_feedback"}
                => /\ stage' = stage
                   /\ sql' = sql
                   /\ query_result' = query_result
           /\ last_run'.event = "next_question"
                => /\ stage = "ask_feedback"
                   /\ stage' = "ask_question"
                   /\ sql' = <<>>
                   /\ query_result' = None ]_vars

C9_Witness ==
  /\ ShapeRejected(last_run)
  /\ last_run.event = "next_question"
  /\ stage = "ask_question"
  /\ sql = <<>>

(***************************************************************************)
(* C10: a submission in stage get_feedback with non-blank feedback for     *)
(* which the generator returns read-shaped text appends one record         *)
(* (user_question, the previous sql, the trimmed feedback, the new sql),   *)
(* appends the two turns "Feedback: <text>" and the new sql, sets sql,     *)
(* saves the session and moves to stage show_query.                        *)
(***************************************************************************)
C10_FeedbackRegenerates ==
  [][ ( /\ last_run'.event = "submit_feedback"
        /\ Strip(user_feedback) # <<>>
        /\ Generated(last_run') # None
        /\ ReadShaped(Generated(last_run')[1]) )
        => LET new_sql == Generated(last_run')[1]
               added == Records'[Len(Records')]
           IN  /\ Len(Records') = Len(Records) + 1
               /\ SubSeq(Records', 1, Len(Records)) = Records
               /\ added.user_question = user_question
               /\ added.incorrect_sql = sql
               /\ added.feedback = Strip(user_feedback)
               /\ added.correct_sql = new_sql
               /\ user_question # <<>> /\ sql # <<>> /\ new_sql # <<>>
               /\ messages' = messages \o
                    << UserTurn(FEEDBACK_PREFIX \o Strip(user_feedback)),
                       AssistantTurn(new_sql) >>
               /\ sql' = new_sql
               /\ files'[session_id].state = "ok"
               /\ Len(files'[session_id].messages) = Len(messages')
               /\ stage' = "show_query" ]_vars

(***************************************************************************)
(* C11: pressing Yes in stage ask_feedback ends in stage ask_question with *)
(* user_question, sql, query_result and user_feedback blank; the           *)
(* transcript, the session files and the feedback store are as before.     *)
(***************************************************************************)
C11_YesResets ==
  [][ last_run'.event = "yes"
        => /\ stage = "ask_feedback"
           /\ stage' = "ask_question"
           /\ user_question' = <<>>
           /\ sql' = <<>>
           /\ query_result' = None
           /\ user_feedback' = <<>>
           /\ messages' = messages
           /\ files' = files
           /\ feedback_file' = feedback_file
           /\ last_run'.calls = <<>> ]_vars

C11_Witness ==
  /\ last_run.event = "yes"
  /\ stage = "ask_question"
  /\ sql = <<>>
  /\ user_feedback = <<>>
  /\ Len(Records) >= 1
  /\ messages # <<>>
  /\ messages[Len(messages)].result # None

(***************************************************************************)
(* C12: a submission in stage get_feedback whose feedback text is empty or *)
(* consists of white space only appends no record and no turn, makes no    *)
(* external call, and leaves the stage get_feedback and user_question and  *)
(* sql as they were; a warning is shown.                                   *)
(***************************************************************************)
Blank(text) == \A i \in 1..Len(text) : text[i] \in Whitespace

C12_BlankFeedbackIgnored ==
  [][ (last_run'.event = "submit_feedback" /\ Blank(user_feedback))
        => /\ stage = "get_feedback"
           /\ stage' = "get_feedback"
           /\ feedback_file' = feedback_file
           /\ messages' = messages
           /\ files' = files
           /\ user_question' = user_question
           /\ sql' = sql
           /\ last_run'.calls = <<>>
           /\ last_run'.notice = "warning" ]_vars

C12_Witness ==
  /\ last_run.event = "submit_feedback"
  /\ last_run.input = FbBlank
  /\ last_run.notice = "warning"
  /\ stage = "get_feedback"
  /\ user_feedback = FbBlank
  /\ Records = <<>>

(***************************************************************************)
(* C13: a run in which the generator raises appends no record.  In stage   *)
(* ask_question the question's user turn, appended and saved before the    *)
(* generation, is the last turn, nothing else is appended, sql is          *)
(* unchanged and the stage stays ask_question; in stage get_feedback the   *)
(* transcript, the session files, sql and user_question are unchanged and  *)
(* the stage stays get_feedback.                                           *)
(***************************************************************************)
GenFailed(run) ==
  \E i \in CallsOf(run, "generate_sql") : run.calls[i].out = None

C13_GenerationFailureAborts ==
  [][ GenFailed(last_run')
        => /\ feedback_file' = feedback_file
           /\ last_run'.event \in
                {"ask_question", "next_question", "submit_feedback"}
           /\ last_run'.event = "ask_question"
                => /\ stage = "ask_question"
                   /\ stage' = "ask_question"
                   /\ Len(messages') = Len(messages) + 1
                   /\ SubSeq(messages', 1, Len(messages)) = messages
                   /\ messages'[Len(messages')].role = "user"
                   /\ messages'[Len(messages')].content = last_run'.input
                   /\ files'[session_id].state = "ok"
                   /\ Len(files'[session_id].messages) = Len(messages')
                   /\ sql' = sql
           /\ last_run'.event = "submit_feedback"
                => /\ stage = "get_feedback"
                   /\ stage' = "get_feedback"
                   /\ messages' = messages
                   /\ files' = files
                   /\ sql' = sql
                   /\ user_question' = user_question ]_vars

C13_Witness ==
  /\ GenFailed(last_run)
  /\ last_run.event = "submit_feedback"
  /\ last_run.notice = "regen_error"
  /\ stage = "get_feedback"
  /\ Records = <<>>
  /\ Len(messages) = 2

(***************************************************************************)
(* C14: no transcript, in memory or in a session file, holds two adjacent  *)
(* assistant turns with the same content; when run_sql succeeds in stage   *)
(* show_query and the last turn is an assistant turn whose content is sql, *)
(* that turn is replaced by the turn that records the result.              *)
(***************************************************************************)
NoAdjacentDuplicate(msgs) ==
  \A i \in 1..(Len(msgs) - 1) :
    ~ /\ msgs[i].role = "assistant"
      /\ msgs[i + 1].role = "assistant"
      /\ msgs[i].content = msgs[i + 1].content

EndsWithSql(msgs, text) ==
  /\ msgs # <<>>
  /\ msgs[Len(msgs)].role = "assistant"
  /\ msgs[Len(msgs)].content = text

C14_NoAdjacentDuplicate ==
  /\ [](/\ NoAdjacentDuplicate(messages)
        /\ \A sid \in DOMAIN files : NoAdjacentDuplicate(files[sid].messages))
  /\ [][ (ExecSucceeded(last_run') /\ EndsWithSql(messages, sql))
          => /\ Len(messages') = Len(messages)
             /\ SubSeq(messages', 1, Len(messages) - 1)
                  = SubSeq(messages, 1, Len(messages) - 1)
             /\ EndsWithSql(messages', sql)
             /\ messages'[Len(messages')].result # None ]_vars

C14_Witness ==
  /\ ExecSucceeded(last_run)
  /\ stage = "ask_feedback"
  /\ Len(Records) >= 1
  /\ Len(messages) = 4
  /\ messages[3].role = "user"
  /\ messages[4].content = Records[Len(Records)].correct_sql
  /\ messages[4].result # None

(***************************************************************************)
(* C15: whenever the controller waits for input (every stage but           *)
(* show_query, which runs on without input) and the transcript is not      *)
(* empty, the file of the current session id is whole, holds as many turns *)
(* as the transcript, turn for turn the same (a datetime cell counted as   *)
(* its ISO text), and its title is the content of the first user turn, or  *)
(* "Untitled Chat" if there is none.                                       *)
(***************************************************************************)
PersistedCell(in_file, in_memory) ==
  \/ in_file = in_memory
  \/ /\ in_memory.kind = "datetime"
     /\ in_file = [col |-> in_memory.col, kind |-> "str",
                   val |-> in_memory.val]

PersistedTurn(in_file, in_memory) ==
  /\ in_file.role = in_memory.role
  /\ in_file.content = in_memory.content
  /\ in_file.show_plot = in_memory.show_plot
  /\ (in_file.result = None) = (in_memory.result = None)
  /\ in_memory.result # None
       => LET saved_rows == in_file.result[1]
              rows == in_memory.result[1]
          IN  /\ Len(saved_rows) = Len(rows)
              /\ \A r \in 1..Len(rows) :
                   /\ Len(saved_rows[r]) = Len(rows[r])
                   /\ \A c \in 1..Len(rows[r]) :
                        PersistedCell(saved_rows[r][c], rows[r][c])

FirstUserContent(msgs) ==
  IF \A i \in 1..Len(msgs) : msgs[i].role # "user"
    THEN UNTITLED_CHAT
    ELSE LET first == CHOOSE i \in 1..Len(msgs) :
                        /\ msgs[i].role = "user"
                        /\ \A j \in 1..Len(msgs) :
                             msgs[j].role = "user" => i <= j
         IN  msgs[first].content

C15_SessionPersisted ==
  (stage # "show_query" /\ messages # <<>>)
    => /\ files[session_id].state = "ok"
       /\ files[session_id].title = FirstUserContent(messages)
       /\ Len(files[session_id].messages) = Len(messages)
       /\ \A i \in 1..Len(messages) :
            PersistedTurn(files[session_id].messages[i], messages[i])

(***************************************************************************)
(* C16: after every run in which save_chat_to_file returned, reloading     *)
(* the session gives back what was saved: the session is listed by         *)
(* list_chats with the title of the transcript, and load_chat returns the  *)
(* transcript itself, turn for turn and cell for cell, datetime cells      *)
(* included.                                                               *)
(***************************************************************************)
SaveReturned(run) ==
  \E i \in CallsOf(run, "save_chat_to_file") : run.calls[i].out # None

C16_RoundTrip ==
  [][ SaveReturned(last_run')
        => /\ session_id' \in list_chats(files')
           /\ files'[session_id'].title = FirstUserContent(messages')
           /\ load_chat(files', session_id') = messages' ]_vars

(***************************************************************************)
(* C17: the prompt handed to the generator is, in this order: one line per *)
(* turn of the last 5 turns of the history (all of them if there are       *)
(* fewer), in their order, "User: <content>" for a user turn and           *)
(* "Assistant SQL: <content>" for an assistant turn; an empty line and the *)
(* line "User: <question>"; the line "Feedback: <feedback>" if and only if *)
(* the feedback is not empty; the instruction sentence.                    *)
(***************************************************************************)
HistoryLine(turn) ==
  (IF turn.role = "user"
     THEN <<"U","s","e","r",":"," ">>
     ELSE <<"A","s","s","i","s","t","a","n","t"," ","S","Q","L",":"," ">>)
  \o turn.content \o <<"\n">>

\* the lines of turns from..to of history, one after the other
RECURSIVE LinesOf(_, _, _)
LinesOf(history, from, to) ==
  IF from > to THEN <<>>
  ELSE LinesOf(history, from, to - 1) \o HistoryLine(history[to])

ExpectedPrompt(question, feedback, history) ==
  LET n == Len(history)
      from == IF n > 5 THEN n - 4 ELSE 1
  IN  LinesOf(history, from, n)
        \o <<"\n","U","s","e","r",":"," ">> \o question \o <<"\n">>
        \o (IF feedback = <<>> THEN <<>>
            ELSE <<"F","e","e","d","b","a","c","k",":"," ">> \o feedback
                   \o <<"\n">>)
        \o INSTRUCTION

C17_PromptLayout ==
  last_run.event = "generate_sql_with_feedback"
    => last_run.calls[1].arg =
         ExpectedPrompt(last_run.input.question, last_run.input.feedback,
                        messages)

C17_Witness ==
  /\ last_run.event = "generate_sql_with_feedback"
  /\ last_run.input.feedback # <<>>
  /\ Len(messages) = MaxHistory
  /\ messages[1].role = "assistant"
  /\ messages[2].role = "user"
  /\ messages[3].role = "assistant"
  /\ messages[4].role = "user"
  /\ messages[MaxHistory].content = MANUAL_EXECUTION

(***************************************************************************)
(* C18: in every step the feedback store after the step starts with the    *)
(* store before it, record for record; it is one record longer when the    *)
(* step is a submission in stage get_feedback for which the generator      *)
(* returned read-shaped text, and of the same length in every other step;  *)
(* the ids of the records are pairwise distinct.                           *)
(***************************************************************************)
RegenSucceeded(run) ==
  /\ run.event = "submit_feedback"
  /\ Generated(run) # None
  /\ ReadShaped(Generated(run)[1])

C18_AppendOnly ==
  /\ [](\A i, j \in 1..Len(Records) :
          i # j => Records[i].id # Records[j].id)
  /\ [][ /\ Len(Records') =
              Len(Records) + (IF RegenSucceeded(last_run') THEN 1 ELSE 0)
         /\ SubSeq(Records', 1, Len(Records)) = Records ]_vars

C18_Witness ==
  /\ RegenSucceeded(last_run)
  /\ Len(Records) = 2
  /\ Records[1].id # Records[2].id
  /\ Records[1].correct_sql # Records[2].correct_sql

(***************************************************************************)
(* C19: when the generator is set up at the start of the process, every    *)
(* record of the feedback store whose user_question and correct_sql are    *)
(* not blank is trained as one documentation block                         *)
(* "User question: <q>\nCorrect SQL: <sql>".                               *)
(***************************************************************************)
FeedbackBlock(record) ==
  <<"U","s","e","r"," ","q","u","e","s","t","i","o","n",":"," ">>
    \o Strip(record.user_question)
    \o <<"\n","C","o","r","r","e","c","t"," ","S","Q","L",":"," ">>
    \o Strip(record.correct_sql)

C19_FeedbackReplayed ==
  last_run.event = "get_vanna"
    => \A i \in 1..Len(Records) :
         (~Blank(Records[i].user_question) /\ ~Blank(Records[i].correct_sql))
           => \E c \in CallsOf(last_run, "train_documentation") :
                last_run.calls[c].arg = FeedbackBlock(Records[i])

(***************************************************************************)
(* C20: while a single script run appends, every record it appended is in  *)
(* feedback.json, in the order of the appends, whenever it is between two  *)
(* appends; with two script runs the file never holds a record that none   *)
(* of them built, nor the same record twice.  The state in which two runs  *)
(* have each completed one append and the file holds one record only is    *)
(* reachable.                                                              *)
(***************************************************************************)
Built(w) == {writers[w].entries[k] : k \in 1..Len(writers[w].entries)}

C20_SingleWriterKeepsAll ==
  /\ \A w \in Writers :
       ( /\ writers[w].pc = "idle"
         /\ writers[w].entries # <<>>
         /\ \A v \in Writers \ {w} : writers[v] = IdleWriter )
         => feedback_file = <<writers[w].entries>>
  /\ \A i \in 1..Len(Records) : \E w \in Writers : Records[i] \in Built(w)
  /\ \A i, j \in 1..Len(Records) : i # j => Records[i] # Records[j]

C20_Witness ==
  /\ \A w \in Writers :
       writers[w].pc = "idle" /\ Len(writers[w].entries) = 1
  /\ feedback_file # None
  /\ ~FileCorrupt(feedback_file)
  /\ Len(Records) = 1
  /\ Records[1] \in Built(1) \cup Built(2)

(***************************************************************************)
(* C21: when a question is typed in stage ask_question or ask_feedback,    *)
(* the history in the prompt handed to the generator is the transcript as  *)
(* it was before the question: the prompt is the lines of its last 5       *)
(* turns, then the line "User: <question>", once, then the instruction.    *)
(***************************************************************************)
QuestionAsked(run) ==
  /\ run.event \in {"ask_question", "next_question"}
  /\ CallsOf(run, "generate_sql") # {}

C21_HistoryPrecedesQuestion ==
  [][ QuestionAsked(last_run')
        => \A c \in CallsOf(last_run', "generate_sql") :
             last_run'.calls[c].arg =
               ExpectedPrompt(last_run'.input, <<>>, messages) ]_vars

(***************************************************************************)
(* C22: when a submission in stage get_feedback appends a record, the      *)
(* record's user_question is the content of a user turn, and its           *)
(* incorrect_sql the content of an assistant turn, of the transcript to    *)
(* which the run appends the two feedback turns.                           *)
(***************************************************************************)
HasTurn(msgs, role, content) ==
  \E i \in 1..Len(msgs) : msgs[i].role = role /\ msgs[i].content = content

C22_StateBelongsToSession ==
  [][ (RegenSucceeded(last_run') /\ Len(Records') = Len(Records) + 1)
        => LET added == Records'[Len(Records')]
           IN  /\ SubSeq(messages', 1, Len(messages)) = messages
               /\ HasTurn(messages, "user", added.user_question)
               /\ HasTurn(messages, "assistant", added.incorrect_sql) ]_vars

=============================================================================
